---- MODULE Spec2Model ----
(***************************************************************************)
(* photo-organize: a command line script that sorts photographs into       *)
(* <outputDir>/<year>/<month> - <month name>/ by their EXIF date, falling  *)
(* back to the file's modification time.                                   *)
(*                                                                         *)
(* The model follows the complete script of the repository                 *)
(* (src/unnamed/part_001).  src/photo-organize.js is an unfinished         *)
(* promise-chain draft of the same script (its getDateFromExif uses an     *)
(* undeclared `deferred`, its function `process` shadows node's process    *)
(* object, perform() receives undefined); it shares validFile, the date    *)
(* path and the exif field order with the script modelled here.            *)
(*                                                                         *)
(* Node runs every callback to completion, so each callback is one atomic  *)
(* action; the asynchronous file system calls complete in any order.       *)
(***************************************************************************)
EXTENDS Integers, Sequences, FiniteSets, TLC

(***************************************************************************)
(* Bounds of the model.                                                    *)
(***************************************************************************)
\* depth of the nested directories p/, p/p/, ... that each hold an x.jpg
MaxDup == 2

(***************************************************************************)
(* File names and path strings.                                            *)
(* A name is [stem, ext]; a path string is [abs, segs, trail]: whether it  *)
(* starts with "/", its segments, and whether it ends with "/".            *)
(***************************************************************************)
Name(stem, ext) == [stem |-> stem, ext |-> ext]

Dot == Name(".", "")

PathStr(abs, segs, trail) == [abs |-> abs, segs |-> segs, trail |-> trail]

\* process.cwd()
Cwd == <<Name("w", "")>>

CwdStr == PathStr(TRUE, Cwd, FALSE)

\* path.normalize on the segments: "." segments vanish
RECURSIVE Normal(_)
Normal(segs) ==
  IF segs = <<>> THEN <<>>
  ELSE IF Head(segs) = Dot THEN Normal(Tail(segs))
       ELSE <<Head(segs)>> \o Normal(Tail(segs))

\* path.join(dir, seg1, ..., segN)
PathJoin(dir, rel) == PathStr(dir.abs, Normal(dir.segs) \o rel, FALSE)

\* path.resolve(p), and the path the fs module opens for a path string
PathResolve(p) == (IF p.abs THEN <<>> ELSE Cwd) \o Normal(p.segs)

\* path.basename(p)
Basename(p) == p[Len(p)]

\* path.extname(p)
Extname(p) == Basename(p.segs).ext

\* the JavaScript string a + b of two path strings: unless a "/" separates
\* them, the last segment of a and the first segment of b become one name
StrConcat(a, b) ==
  IF b.abs \/ a.trail \/ a.segs = <<>>
    THEN PathStr(a.abs, a.segs \o b.segs, b.trail)
    ELSE LET l == a.segs[Len(a.segs)]
             h == Head(b.segs)
             fused == Name(l.stem \o l.ext \o h.stem, h.ext)
         IN PathStr(a.abs,
                    SubSeq(a.segs, 1, Len(a.segs) - 1) \o <<fused>> \o Tail(b.segs),
                    b.trail)

\* String.prototype.toLowerCase on the extensions that occur
ToLowerCase(s) ==
  CASE s = ".JPG" -> ".jpg"
    [] s = ".JPEG" -> ".jpeg"
    [] s = ".Jpg" -> ".jpg"
    [] s = ".PNG" -> ".png"
    [] OTHER -> s

validExtensions == {".jpg", ".jpeg"}

\* validFile that accepts every entry with an extension
validFileAnyExtension(file) == ToLowerCase(Extname(file)) # ""

validFile(file) == ToLowerCase(Extname(file)) \in validExtensions

(***************************************************************************)
(* Dates.  A Date (mtime) is <<year, month 1..12, day>>; an EXIF date      *)
(* string "YYYY:MM:DD HH:mm:ss" is the sequence of its numeric fields, a   *)
(* string without digits the empty sequence.  A moment is                  *)
(* [valid, year, month] with month 0..11 as moment.month() returns it.     *)
(***************************************************************************)
Undefined == <<-1>>

\* the null that getDateFromExif resolves with on an EXIF error
Null == [null |-> TRUE, valid |-> FALSE, year |-> -1, month |-> -1]

MonthNames ==
  <<"January", "February", "March", "April", "May", "June", "July",
    "August", "September", "October", "November", "December">>

DaysInMonth(y, m) ==
  IF m = 2 THEN (IF y % 4 = 0 /\ (y % 100 # 0 \/ y % 400 = 0) THEN 29 ELSE 28)
  ELSE IF m \in {4, 6, 9, 11} THEN 30 ELSE 31

Field(s, i, default) == IF Len(s) >= i THEN s[i] ELSE default

\* moment(dateString, 'YYYY:MM:DD HH:mm:ss'): forgiving parsing; invalid when
\* nothing was parsed (also for dateString undefined) or a field overflows
MomentParse(s) ==
  LET y == Field(s, 1, 0)
      m == Field(s, 2, 1)
      d == Field(s, 3, 1)
      hh == Field(s, 4, 0)
      mi == Field(s, 5, 0)
      ss == Field(s, 6, 0)
      ok == /\ s # Undefined
            /\ Len(s) >= 1
            /\ m \in 1..12
            /\ d \in 1..DaysInMonth(y, m)
            /\ hh \in 0..23
            /\ mi \in 0..59
            /\ ss \in 0..59
  IN IF ok THEN [null |-> FALSE, valid |-> TRUE, year |-> y, month |-> m - 1]
     ELSE [null |-> FALSE, valid |-> FALSE, year |-> -1, month |-> -1]

\* moment(date) of a Date object
MomentOfDate(d) ==
  [null |-> FALSE, valid |-> TRUE, year |-> d[1], month |-> d[2] - 1]

\* datePath with the month number as moment.month() returns it (0..11)
DatePathZeroBased(date) ==
  << Name(ToString(date.year), ""),
     Name(ToString(date.month) \o " - " \o MonthNames[date.month + 1], "") >>

\* path.join(date.year().toString(),
\*           (date.month() + 1).toString() + ' - ' + moment.months()[date.month()])
DatePath(date) ==
  << Name(ToString(date.year), ""),
     Name(ToString(date.month + 1) \o " - " \o MonthNames[date.month + 1], "") >>

(***************************************************************************)
(* The file system: files maps the absolute path of every regular file to  *)
(* [content, mtime, exif]; dirs is the set of directories.                 *)
(***************************************************************************)
NoExif == [present |-> FALSE, DateTimeOriginal |-> Undefined, DateTime |-> Undefined]

ExifData(dto, dt) == [present |-> TRUE, DateTimeOriginal |-> dto, DateTime |-> dt]

File(content, mtime, exif) == [content |-> content, mtime |-> mtime, exif |-> exif]

Put(f, k, v) == [x \in DOMAIN f \cup {k} |-> IF x = k THEN v ELSE f[x]]

Del(f, k) == [x \in DOMAIN f \ {k} |-> f[x]]

Parent(p) == SubSeq(p, 1, Len(p) - 1)

\* p and the directories above it
Prefixes(p) == {SubSeq(p, 1, k) : k \in 0..Len(p)}

IsUnder(p, dir) == Len(p) > Len(dir) /\ SubSeq(p, 1, Len(dir)) = dir

\* mkdir -p can make p: no regular file is in the way
CanMkdirs(fs, p) == Prefixes(p) \cap DOMAIN fs = {}

(***************************************************************************)
(* The inputs: the command line and the file system the run starts with.   *)
(***************************************************************************)
P == Name("p", "")

XJpg == Name("x", ".jpg")

\* /w/p/x.jpg, /w/p/p/x.jpg, ...: photographs with one basename
Dup(k) == Cwd \o [i \in 1..k |-> P] \o <<XJpg>>

\* /w/z.JPG: a photograph with an upper-case extension
ZJpg == Cwd \o <<Name("z", ".JPG")>>

NotePath == Cwd \o <<Name("note", ".txt")>>

PngPath == Cwd \o <<P, Name("n", ".png")>>

OutRoot == Cwd \o <<Name("out", "")>>

MarchDir == OutRoot \o <<Name("2021", ""), Name("3 - March", "")>>

\* the date every file of the run was last modified on
PhotoMtime == <<2021, 3, 15>>

\* the date of the run: the mtime of a file that fs.copy writes
RunDate == <<2026, 11, 1>>

ExifChoices ==
  { NoExif,
    ExifData(<<2022, 1, 15, 6, 10, 0>>, Undefined),
    ExifData(Undefined, <<2022, 1, 15, 6, 10, 0>>),
    ExifData(<<2022, 1, 15, 6, 10, 0>>, <<2020, 12, 24, 18, 0, 0>>),
    ExifData(Undefined, Undefined),
    ExifData(<<>>, Undefined),
    ExifData(<<2022, 13, 1, 0, 0, 0>>, Undefined) }

OutStates == {"absent", "empty", "dated", "taken"}

\* the EXIF data of the photographs in the nested directories p/p/, ...
SubExifChoices == {NoExif, ExifData(<<2023, 7, 4, 12, 0, 0>>, Undefined)}

InitFiles(exif, sub, out) ==
  LET top == {ZJpg, Dup(1)}
      nested == {Dup(k) : k \in 2..MaxDup}
      taken == IF out = "taken" THEN {MarchDir \o <<XJpg>>} ELSE {}
  IN [f \in top \cup nested \cup taken \cup {NotePath, PngPath} |->
        IF f \in top THEN File(f, PhotoMtime, exif)
        ELSE IF f \in nested THEN File(f, PhotoMtime, sub)
        ELSE File(f, PhotoMtime, NoExif)]

InitDirs(out) ==
  UNION {Prefixes(Parent(Dup(k))) : k \in 1..MaxDup}
  \cup (CASE out = "absent" -> {}
          [] out = "empty" -> Prefixes(OutRoot)
          [] OTHER -> Prefixes(MarchDir))

ArgDot == PathStr(FALSE, <<Dot>>, TRUE)                        \* ./

ArgP == PathStr(FALSE, <<P>>, FALSE)                           \* p

ArgPSlash == PathStr(FALSE, <<P>>, TRUE)                       \* p/

ArgAbsP == PathStr(TRUE, Cwd \o <<P>>, FALSE)                  \* /w/p

ArgNope == PathStr(FALSE, <<Name("nope", "")>>, FALSE)         \* nope: does not exist

ArgNote == PathStr(FALSE, <<Name("note", ".txt")>>, FALSE)     \* note.txt: a regular file

ArgOut == PathStr(FALSE, <<Name("out", "")>>, FALSE)           \* out

InputArgs == {ArgDot, ArgP, ArgPSlash, ArgAbsP, ArgNope, ArgNote}

\* the command lines: no argument, inputDir alone, inputDir with an outputDir
\* that cannot be made (a regular file is there), and three arguments
ArgLists ==
  {<<>>} \cup {<<i>> : i \in InputArgs}
  \cup {<<i, ArgNote>> : i \in {ArgP, ArgNope}}
  \cup {<<ArgP, ArgOut, ArgNope>>}

(***************************************************************************)
(* The state of a run.                                                     *)
(***************************************************************************)
VARIABLES
  args,       \* program.args
  program,    \* the options: [dry, move, recursive]
  files,      \* the regular files
  dirs,       \* the directories
  start,      \* the file system the run started with
  phase,      \* "start", "running", "ended" (event loop empty) or "exited"
  exitCode,   \* the exit code once the process is over, else -1
  statInput,  \* fs.stat(inputDir): "idle", "pending", "done"
  ensureDir,  \* fs.ensureDir(outputDir): "idle", "pending", "done"
  readdir,    \* fs.readdir / recursive(inputDir): "idle", "pending", "done"
  task,       \* per candidate file (by absolute path): the state of its chain
  log         \* the lines winston has written

vars == <<args, program, files, dirs, start, phase, exitCode,
          statInput, ensureDir, readdir, task, log>>

\* inputDir = program.args[0] || process.cwd()
inputDir == IF Len(args) >= 1 THEN args[1] ELSE CwdStr

\* outputDir = program.args[1] || 'out'
outputDir ==
  IF Len(args) >= 2 THEN args[2] ELSE ArgOut

Line(level, what, src, dst) == [level |-> level, what |-> what, src |-> src, dst |-> dst]

Init ==
  /\ args \in ArgLists
  /\ program \in [dry : BOOLEAN, move : BOOLEAN, recursive : BOOLEAN]
  /\ \E exif \in ExifChoices, sub \in SubExifChoices, out \in OutStates :
       /\ files = InitFiles(exif, sub, out)
       /\ dirs = InitDirs(out)
  /\ start = [files |-> files, dirs |-> dirs]
  /\ phase = "start"
  /\ exitCode = -1
  /\ statInput = "idle"
  /\ ensureDir = "idle"
  /\ readdir = "idle"
  /\ task = <<>>
  /\ log = {}

(***************************************************************************)
(* Start up: the argument check and processInput, which starts the stat of *)
(* inputDir, the creation of outputDir and the listing at once.            *)
(***************************************************************************)
\* process.exit(1)
Exit1 == phase' = "exited" /\ exitCode' = 1

Main ==
  /\ phase = "start"
  /\ IF Len(args) > 2
       THEN /\ log' = log \cup {Line("error", "Too many arguments", <<>>, <<>>)}
            /\ Exit1
            /\ UNCHANGED <<statInput, ensureDir, readdir>>
       ELSE /\ log' = log \cup {Line("info", "Processing directory", <<>>, <<>>)}
                          \cup (IF program.dry
                                  THEN {Line("info", "Dry option specified", <<>>, <<>>)}
                                  ELSE {})
            /\ phase' = "running"
            /\ statInput' = "pending"
            /\ ensureDir' = "pending"
            /\ readdir' = "pending"
            /\ UNCHANGED exitCode
  /\ UNCHANGED <<args, program, files, dirs, start, task>>

\* fs.stat(inputDir) and its two callbacks
StatInputDone ==
  /\ phase = "running"
  /\ statInput = "pending"
  /\ LET d == PathResolve(inputDir)
     IN IF d \notin dirs /\ d \notin DOMAIN files
          THEN /\ log' = log \cup {Line("error", "inputDir is not valid", d, <<>>)}
               /\ Exit1
               /\ UNCHANGED statInput
          ELSE /\ log' = IF d \notin dirs
                           THEN log \cup {Line("error", "is not a directory", d, <<>>)}
                           ELSE log
               /\ statInput' = "done"
               /\ UNCHANGED <<phase, exitCode>>
  /\ UNCHANGED <<args, program, files, dirs, start, ensureDir, readdir, task>>

\* fs.ensureDir(outputDir) and its catch
EnsureDirDone ==
  /\ phase = "running"
  /\ ensureDir = "pending"
  /\ LET d == PathResolve(outputDir)
     IN IF CanMkdirs(files, d)
          THEN /\ dirs' = dirs \cup Prefixes(d)
               /\ ensureDir' = "done"
               /\ UNCHANGED <<log, phase, exitCode>>
          ELSE /\ log' = log \cup {Line("error", "outputDir is not valid", d, <<>>)}
               /\ Exit1
               /\ UNCHANGED <<dirs, ensureDir>>
  /\ UNCHANGED <<args, program, files, start, statInput, readdir, task>>

(***************************************************************************)
(* The listing and processFiles.                                           *)
(***************************************************************************)
\* a listing that reads the entries of the directory whatever the option says
ListingNotRecursive(fs, ds, recurse) ==
  LET root == PathResolve(inputDir)
      rel(f) == SubSeq(f, Len(root) + 1, Len(f))
  IN {PathJoin(inputDir, rel(f)) :
        f \in {g \in DOMAIN fs \cup ds : IsUnder(g, root) /\ Parent(g) = root}}

\* the path strings the listing passes to processFiles: recursive-readdir
\* yields every file below the directory, fs.readdir the entries in it
Listing(fs, ds, recurse) ==
  LET root == PathResolve(inputDir)
      rel(f) == SubSeq(f, Len(root) + 1, Len(f))
  IN IF recurse
       THEN {PathJoin(inputDir, rel(f)) : f \in {g \in DOMAIN fs : IsUnder(g, root)}}
       ELSE {PathJoin(inputDir, rel(f)) :
               f \in {g \in DOMAIN fs \cup ds : IsUnder(g, root) /\ Parent(g) = root}}

NoPath == PathStr(FALSE, <<>>, FALSE)

\* the chain processFiles starts for one file: getDateFromExif is pending
NewTask(file) ==
  [file |-> file, pc |-> "exif", exifDate |-> Null, date |-> Null,
   newFilePath |-> NoPath, outcome |-> "none"]

\* _.forEach(_.filter(files, validFile), ...)
processFiles(listed) ==
  LET valid == {file \in listed : validFile(file)}
  IN [t \in {PathResolve(file) : file \in valid} |->
        NewTask(CHOOSE file \in valid : PathResolve(file) = t)]

ReaddirDone ==
  /\ phase = "running"
  /\ readdir = "pending"
  /\ readdir' = "done"
  /\ IF PathResolve(inputDir) \in dirs
       THEN /\ task' = processFiles(Listing(files, dirs, program.recursive))
            /\ UNCHANGED log
       ELSE /\ log' = log \cup {Line("error", "listing failed", PathResolve(inputDir), <<>>)}
            /\ UNCHANGED task
  /\ UNCHANGED <<args, program, files, dirs, start, phase, exitCode, statInput, ensureDir>>

(***************************************************************************)
(* The chain of one file: EXIF read, date, existence check, copy or move.  *)
(***************************************************************************)
\* the file the ExifImage constructor is given: image: inputDir + file
ExifImagePath(file) == PathResolve(StrConcat(inputDir, file))

\* a date string that takes DateTime before DateTimeOriginal
DateStringGenericFirst(exif) ==
  IF exif.DateTime # Undefined THEN exif.DateTime
  ELSE IF exif.DateTimeOriginal # Undefined THEN exif.DateTimeOriginal
  ELSE Undefined

\* the date string the callback of ExifImage takes from exifData.exif
DateString(exif) ==
  IF exif.DateTimeOriginal # Undefined THEN exif.DateTimeOriginal
  ELSE IF exif.DateTime # Undefined THEN exif.DateTime
  ELSE Undefined

\* what getDateFromExif resolves with: null when the image cannot be opened
\* or holds no EXIF segment, else the parsed date string
getDateFromExif(fs, file) ==
  LET image == ExifImagePath(file)
  IN IF image \notin DOMAIN fs \/ ~fs[image].exif.present
       THEN Null
       ELSE MomentParse(DateString(fs[image].exif))

\* the date the file is filed under
ResolveDate(fs, origFilePath, exifDate) ==
  IF ~exifDate.null /\ exifDate.valid
    THEN exifDate
    ELSE MomentOfDate(fs[origFilePath].mtime)

\* path.join(outputDir, datePath, path.basename(origFilePath))
NewFilePath(origFilePath, date) ==
  PathJoin(outputDir, DatePath(date) \o <<Basename(origFilePath)>>)

Finished(t, outcome) == [task EXCEPT ![t].pc = "done", ![t].outcome = outcome]

\* the callback of the EXIF read and the .then of its promise
ExifDone(t) ==
  /\ phase = "running"
  /\ task[t].pc = "exif"
  /\ LET exifDate == getDateFromExif(files, task[t].file)
         origFilePath == PathResolve(task[t].file)
     IN IF ~(~exifDate.null /\ exifDate.valid) /\ origFilePath \notin DOMAIN files
          THEN \* fs.statSync throws: .catch, winston.debug(err)
               /\ task' = Finished(t, "failed")
               /\ log' = log \cup {Line("debug", "statSync failed", origFilePath, <<>>)}
          ELSE LET date == ResolveDate(files, origFilePath, exifDate)
                   newFilePath == NewFilePath(origFilePath, date)
               IN /\ task' = [task EXCEPT
                                ![t].exifDate = exifDate,
                                ![t].date = date,
                                ![t].newFilePath = newFilePath,
                                ![t].pc = IF program.dry THEN "done" ELSE "stat",
                                ![t].outcome = IF program.dry THEN "dry" ELSE "none"]
                  /\ UNCHANGED log
  /\ UNCHANGED <<args, program, files, dirs, start, phase, exitCode,
                 statInput, ensureDir, readdir>>

\* StatDone without the .then branch: the copy or the rename is started
\* whether or not the destination exists
StatDoneIgnoresExisting(t) ==
  /\ phase = "running"
  /\ task[t].pc = "stat"
  /\ task' = [task EXCEPT ![t].pc = IF program.move THEN "rename" ELSE "copy"]
  /\ UNCHANGED <<args, program, files, dirs, start, phase, exitCode,
                 statInput, ensureDir, readdir, log>>

\* fs.stat(newFilePath): .then warns, .catch starts the copy or the rename
StatDone(t) ==
  /\ phase = "running"
  /\ task[t].pc = "stat"
  /\ LET origFilePath == PathResolve(task[t].file)
         dest == PathResolve(task[t].newFilePath)
     IN IF dest \in DOMAIN files \/ dest \in dirs
          THEN /\ log' = log \cup {Line("warn", "filename already exists", origFilePath, dest)}
               /\ task' = Finished(t, "skipped")
          ELSE /\ task' = [task EXCEPT ![t].pc = IF program.move THEN "rename" ELSE "copy"]
               /\ UNCHANGED log
  /\ UNCHANGED <<args, program, files, dirs, start, phase, exitCode,
                 statInput, ensureDir, readdir>>

\* fs.copy(origFilePath, newFilePath) of fs-extra: makes the directories of
\* the destination and overwrites a file that is there
CopyDone(t) ==
  /\ phase = "running"
  /\ task[t].pc = "copy"
  /\ LET origFilePath == PathResolve(task[t].file)
         dest == PathResolve(task[t].newFilePath)
     IN IF origFilePath \in DOMAIN files /\ CanMkdirs(files, Parent(dest)) /\ dest \notin dirs
          THEN /\ files' = Put(files, dest,
                               File(files[origFilePath].content, RunDate,
                                    files[origFilePath].exif))
               /\ dirs' = dirs \cup Prefixes(Parent(dest))
               /\ log' = log \cup {Line("info", "copied to", origFilePath, dest)}
               /\ task' = Finished(t, "copied")
          ELSE /\ log' = log \cup {Line("error", "Error copying", origFilePath, dest)}
               /\ task' = Finished(t, "failed")
               /\ UNCHANGED <<files, dirs>>
  /\ UNCHANGED <<args, program, start, phase, exitCode, statInput, ensureDir, readdir>>

\* fs.rename(origFilePath, newFilePath): rename(2) needs the directory of the
\* destination and replaces a file that is there.  The success is logged with
\* winston.error; the failure goes to winston.log(message), which has no such
\* level and writes nothing.
RenameDone(t) ==
  /\ phase = "running"
  /\ task[t].pc = "rename"
  /\ LET origFilePath == PathResolve(task[t].file)
         dest == PathResolve(task[t].newFilePath)
     IN IF origFilePath \in DOMAIN files /\ Parent(dest) \in dirs /\ dest \notin dirs
          THEN /\ files' = Put(Del(files, origFilePath), dest, files[origFilePath])
               /\ log' = log \cup {Line("error", "moved to", origFilePath, dest)}
               /\ task' = Finished(t, "moved")
          ELSE /\ task' = Finished(t, "failed")
               /\ UNCHANGED <<files, log>>
  /\ UNCHANGED <<args, program, dirs, start, phase, exitCode, statInput, ensureDir, readdir>>

\* nothing is pending any more: node leaves the event loop with exit code 0
Idle ==
  /\ statInput = "done"
  /\ ensureDir = "done"
  /\ readdir = "done"
  /\ \A t \in DOMAIN task : task[t].pc = "done"

EventLoopEmpty ==
  /\ phase = "running"
  /\ Idle
  /\ phase' = "ended"
  /\ exitCode' = 0
  /\ UNCHANGED <<args, program, files, dirs, start, statInput, ensureDir, readdir, task, log>>

Next ==
  \/ Main
  \/ StatInputDone
  \/ EnsureDirDone
  \/ ReaddirDone
  \/ \E t \in DOMAIN task : ExifDone(t)
  \/ \E t \in DOMAIN task : StatDone(t)
  \/ \E t \in DOMAIN task : CopyDone(t)
  \/ \E t \in DOMAIN task : RenameDone(t)
  \/ EventLoopEmpty

Spec == Init /\ [][Next]_vars

\* every pending callback is eventually run
FairSpec == Spec /\ WF_vars(Next)

(***************************************************************************)
(* The claims.                                                             *)
(***************************************************************************)
\* the absolute path the chain of t computed as its destination
Dest(t) == PathResolve(task[t].newFilePath)

\* the chain of t has computed its date and its destination
Resolved(t) == task[t].pc # "exif" /\ task[t].newFilePath # NoPath

\* the run is over: the event loop ran empty
Ended == phase = "ended"

\* the existence check of t found nothing and its copy or move was started
Placing(t) == task[t].pc \in {"copy", "rename"} \/ task[t].outcome \in {"copied", "moved", "failed"}

\* C1: once a path under the output root holds a file, no step of the run
\* replaces (or removes) the content of that file.
C1_NeverOverwritten ==
  [][\A d \in DOMAIN files :
       IsUnder(d, PathResolve(outputDir))
         => d \in DOMAIN files' /\ files'[d].content = files[d].content]_vars

C3_DryChangesNothing ==
  program.dry => files = start.files /\ dirs = start.dirs

\* C4: in a dry run that has ended, every candidate file has a log line that
\* shows its source and its destination.
C4_DryLogsEveryPlan ==
  (program.dry /\ Ended) =>
    \A t \in DOMAIN task : \E l \in log : l.src = t /\ l.dst = Dest(t)

\* C5: in a move run that has ended, every candidate whose existence check
\* found no file at its destination is gone from its source path and its
\* content is at the destination.
C5_MovedWhenFree ==
  (program.move /\ ~program.dry /\ Ended) =>
    \A t \in DOMAIN task :
      Placing(t) =>
        /\ t \notin DOMAIN files
        /\ Dest(t) \in DOMAIN files
        /\ files[Dest(t)].content = start.files[t].content

\* C6: in a copy run that has ended, every candidate whose existence check
\* found no file at its destination is unchanged at its source path and the
\* destination holds a file with the same content.
C6_CopiedWhenFree ==
  (~program.move /\ ~program.dry /\ Ended) =>
    \A t \in DOMAIN task :
      Placing(t) =>
        /\ t \in DOMAIN files
        /\ files[t] = start.files[t]
        /\ Dest(t) \in DOMAIN files
        /\ files[Dest(t)].content = start.files[t].content

\* the file at path f carries EXIF data whose date string parses
HasValidExif(f) ==
  /\ start.files[f].exif.present
  /\ MomentParse(DateString(start.files[f].exif)).valid

\* C7: the date resolved for a file with valid EXIF data is the parsed date
\* of the EXIF data of that file.
C7_ExifDateUsed ==
  \A t \in DOMAIN task :
    (Resolved(t) /\ HasValidExif(t)) =>
      task[t].date = MomentParse(DateString(start.files[t].exif))

\* C8: the date resolved for a file without EXIF data, or whose EXIF data
\* holds no date string that parses, is its modification time, and the
\* file is filed under it.
C8_FallbackToMtime ==
  \A t \in DOMAIN task :
    (task[t].pc # "exif" /\ ~HasValidExif(t)) =>
      /\ Resolved(t)
      /\ task[t].date = MomentOfDate(start.files[t].mtime)
      /\ task[t].newFilePath = NewFilePath(t, MomentOfDate(start.files[t].mtime))

\* the command line is in error: too many arguments, inputDir missing or not
\* a directory, or outputDir cannot be made
ConfigError ==
  \/ Len(args) > 2
  \/ PathResolve(inputDir) \notin start.dirs
  \/ ~CanMkdirs(start.files, PathResolve(outputDir))

\* C9: a run that is over has a non-zero exit code exactly if the command
\* line is in error.
C9_ExitCode ==
  phase \in {"ended", "exited"} => (exitCode # 0 <=> ConfigError)

\* C10: a chain for a candidate file (whose first step is the EXIF read) is
\* only started once the check of inputDir and the creation of outputDir
\* have both completed.
C10_SetupBeforeFiles ==
  DOMAIN task # {} => (statInput = "done" /\ ensureDir = "done")

\* the outcomes a chain can end with
FinalOutcomes == {"dry", "skipped", "copied", "moved", "failed"}

\* C11: when the process is over, every candidate file has reached one final
\* outcome; the failure of one file's chain stops no other chain.
C11_EveryFileHasOutcome ==
  phase \in {"ended", "exited"} =>
    \A t \in DOMAIN task : task[t].pc = "done" /\ task[t].outcome \in FinalOutcomes

\* a file name with the extension .jpg or .jpeg in any letter case
IsJpegName(n) == n.ext \in {".jpg", ".JPG", ".Jpg", ".jpeg", ".JPEG"}

\* C12: every candidate file, and every file that is read for EXIF data, has
\* the extension .jpg or .jpeg in some letter case; a file with another
\* extension is as it was at the start, is the source of no log line and the
\* content of no file under the output root.
C12_OnlyJpegProcessed ==
  /\ \A t \in DOMAIN task :
       /\ IsJpegName(Basename(t))
       /\ IsJpegName(Basename(ExifImagePath(task[t].file)))
  /\ \A f \in DOMAIN start.files :
       ~IsJpegName(Basename(f)) =>
         /\ f \in DOMAIN files
         /\ files[f] = start.files[f]
         /\ ~\E l \in log : l.src = f /\ l.what \in {"filename already exists", "copied to",
                                                     "moved to", "Error copying", "statSync failed"}
         /\ \A d \in DOMAIN files : d # f => files[d].content # start.files[f].content

\* a recursive run has ended that copied the photograph with the upper-case
\* extension and had a .png file two levels below the input directory
C12_Witness ==
  /\ Ended
  /\ program.recursive
  /\ ZJpg \in DOMAIN task
  /\ task[ZJpg].outcome = "copied"
  /\ PngPath \in DOMAIN files
  /\ IsUnder(Parent(PngPath), PathResolve(inputDir))

\* the directory names <month number> - <month name>
MonthLabels ==
  <<"1 - January", "2 - February", "3 - March", "4 - April", "5 - May",
    "6 - June", "7 - July", "8 - August", "9 - September", "10 - October",
    "11 - November", "12 - December">>

SupportedBelow(root) ==
  {f \in DOMAIN start.files : IsUnder(f, root) /\ IsJpegName(Basename(f))}

SupportedIn(root) == {f \in SupportedBelow(root) : Parent(f) = root}

\* C14: once the listing of an input directory has been read, the candidates
\* are, with the recursive option, every supported file below the input
\* directory, and without it exactly the supported files directly in it.
C14_CandidateSet ==
  (readdir = "done" /\ PathResolve(inputDir) \in start.dirs) =>
    DOMAIN task = IF program.recursive
                    THEN SupportedBelow(PathResolve(inputDir))
                    ELSE SupportedIn(PathResolve(inputDir))

\* a recursive run has ended that processed the photograph in the deepest
\* directory as well as one directly in the input directory
C14_Witness ==
  /\ Ended
  /\ program.recursive
  /\ Dup(MaxDup) \in DOMAIN task
  /\ task[Dup(MaxDup)].pc = "done"
  /\ \E t \in DOMAIN task : Parent(t) = PathResolve(inputDir)
  /\ Parent(Dup(MaxDup)) # PathResolve(inputDir)

\* the EXIF data that the chain of t reads: that of the file at
\* inputDir + file
ExifRead(t) == files[ExifImagePath(task[t].file)].exif

HasExifRead(t) ==
  /\ ExifImagePath(task[t].file) \in DOMAIN files
  /\ ExifRead(t).present

SummaryLine == Line("info", "Done", <<>>, <<>>)

C17_NoContentLost ==
  \A f \in DOMAIN start.files :
    \/ f \in DOMAIN files /\ files[f].content = start.files[f].content
    \/ /\ f \in DOMAIN task
       /\ Resolved(f)
       /\ Dest(f) \in DOMAIN files
       /\ files[Dest(f)].content = start.files[f].content

====
